---- MODULE Spec2Model ----
(***************************************************************************)
(* A model of package crockford (src/crockford.go): the Crockford base 32  *)
(* alphabets, the fixed-width fragment encoders (Time, Random, MD5), the   *)
(* checksum symbol, the normalizer, and the slice helpers ensure and grow. *)
(*                                                                         *)
(* Bytes are the integers 0..255 and a string or byte slice's contents     *)
(* are a sequence of bytes (ASCII codes).  A Go slice is a header          *)
(* [arr, off, len, cap] onto a backing array; the contents of the one      *)
(* backing array in play are passed beside the header as "mem".            *)
(* A Unix time (int64) is held as four 16-bit words, most significant      *)
(* first, in two's complement, because TLC's integers are 32 bits wide.    *)
(***************************************************************************)
EXTENDS Integers, Sequences, FiniteSets, TLC

VARIABLES
    op,        \* the library function the caller ran last ("idle": none yet)
    enc,       \* "lower" | "upper": the *base32.Encoding passed (Checksum: the uppercase flag)
    ut,        \* the t.Unix() value passed to Time / AppendTime
    src,       \* the byte input: MD5's src, Checksum's body, Normalized's s
    dst,       \* the header of the caller's dst slice before the call
    dstMem,    \* the contents of dst's backing array before the call
    ret,       \* the header of the returned slice
    retMem,    \* the contents of ret's backing array after the call
    raw,       \* the unencoded bytes handed to e.Encode (5 or 16)
    outcome,   \* "ok" | "panic: rand" | "panic: bounds"
    reads,     \* how many times the call asked crypto/rand for bytes
    randErr,   \* whether crypto/rand answers this call's reads with an error
    prev       \* what the call before this one was given and returned

vars == <<op, enc, ut, src, dst, dstMem, ret, retMem, raw, outcome, reads, randErr, prev>>

-----------------------------------------------------------------------------
(* Bounds of the model *)

\* Timestamps are taken at 0..TimeSpread seconds after each anchor.
TimeSpread == 2
\* The longest prefix already held in a destination slice.
MaxDstLen == 2
\* The most capacity beyond the requested length that a reallocating append hands out.
MaxSlack == 1
\* The longest Checksum body.
MaxBodyLen == 2
\* The longest generated Normalized input.
MaxStrLen == 3
\* The longest generated AppendNormalized input.
MaxAppendStrLen == 2

-----------------------------------------------------------------------------
(* Alphabets and encodings *)

LowercaseAlphabet ==
    <<48, 49, 50, 51, 52, 53, 54, 55, 56, 57, 97, 98, 99, 100, 101, 102,
      103, 104, 106, 107, 109, 110, 112, 113, 114, 115, 116, 118, 119, 120, 121, 122>>

UppercaseAlphabet ==
    <<48, 49, 50, 51, 52, 53, 54, 55, 56, 57, 65, 66, 67, 68, 69, 70,
      71, 72, 74, 75, 77, 78, 80, 81, 82, 83, 84, 86, 87, 88, 89, 90>>

\* "*~$=U"
UppercaseChecksum == UppercaseAlphabet \o <<42, 126, 36, 61, 85>>

\* "*~$=u"
LowercaseChecksum == LowercaseAlphabet \o <<42, 126, 36, 61, 117>>

Lower == [alphabet |-> LowercaseAlphabet, padding |-> "NoPadding"]

Upper == [alphabet |-> UppercaseAlphabet, padding |-> "NoPadding"]

Encodings == {"lower", "upper"}

Encoding(e) == IF e = "upper" THEN Upper ELSE Lower

LenTime == 8

LenRandom == 8

LenMD5 == 26

-----------------------------------------------------------------------------
(* encoding/base32 with NoPadding, as the package uses it *)

\* Bit k (0 = the most significant bit of the first byte) of a byte string,
\* 0 beyond its end.
BitAt(b, k) ==
    IF k < 8 * Len(b) THEN (b[(k \div 8) + 1] \div (2 ^ (7 - (k % 8)))) % 2 ELSE 0

\* The i-th (from 0) 5-bit group of a byte string.
Quintet(b, i) ==
    16 * BitAt(b, 5 * i) + 8 * BitAt(b, 5 * i + 1) + 4 * BitAt(b, 5 * i + 2)
        + 2 * BitAt(b, 5 * i + 3) + BitAt(b, 5 * i + 4)

EncodedLen(n) == (n * 8 + 4) \div 5

\* The characters e.Encode produces for the bytes b.
EncodeToString(e, b) ==
    [i \in 1..EncodedLen(Len(b)) |-> e.alphabet[Quintet(b, i - 1) + 1]]

\* The value 0..31 of the character c in e's alphabet.
DecodeMap(e, c) == (CHOOSE i \in 1..Len(e.alphabet) : e.alphabet[i] = c) - 1

\* Bit k of the 5-bit groups that the characters s stand for.
QuintetBitAt(e, s, k) ==
    (DecodeMap(e, s[(k \div 5) + 1]) \div (2 ^ (4 - (k % 5)))) % 2

\* The bytes e.DecodeString returns for the characters s.
DecodeString(e, s) ==
    [j \in 1..((Len(s) * 5) \div 8) |->
        128 * QuintetBitAt(e, s, 8 * (j - 1)) + 64 * QuintetBitAt(e, s, 8 * (j - 1) + 1)
        + 32 * QuintetBitAt(e, s, 8 * (j - 1) + 2) + 16 * QuintetBitAt(e, s, 8 * (j - 1) + 3)
        + 8 * QuintetBitAt(e, s, 8 * (j - 1) + 4) + 4 * QuintetBitAt(e, s, 8 * (j - 1) + 5)
        + 2 * QuintetBitAt(e, s, 8 * (j - 1) + 6) + QuintetBitAt(e, s, 8 * (j - 1) + 7)]

-----------------------------------------------------------------------------
(* Go slices *)

NilSlice == [arr |-> 0, off |-> 0, len |-> 0, cap |-> 0]

Zeros(n) == [i \in 1..n |-> 0]

\* make([]byte, n): the contents of a fresh slice.
make(n) == Zeros(n)

\* Whether b[lo:hi] is within bounds; Go panics otherwise.
InBounds(b, lo, hi) == 0 <= lo /\ lo <= hi /\ hi <= b.cap

\* b[lo:hi]
Reslice(b, lo, hi) ==
    [arr |-> b.arr, off |-> b.off + lo, len |-> hi - lo, cap |-> b.cap - lo]

\* The bytes the slice b shows of its backing array mem.
Bytes(b, mem) == SubSeq(mem, b.off + 1, b.off + b.len)

\* mem after copying xs into the backing array from the start of the slice b.
WriteAt(b, mem, xs) ==
    [i \in 1..Len(mem) |->
        IF i > b.off /\ i <= b.off + Len(xs) THEN xs[i - b.off] ELSE mem[i]]

\* append(b, xs...): within capacity the backing array is reused; otherwise a
\* new array is allocated with room for the result and slack bytes more.
append(b, mem, xs, slack) ==
    IF b.cap - b.len >= Len(xs)
    THEN [s |-> [b EXCEPT !.len = b.len + Len(xs)],
          mem |-> WriteAt(Reslice(b, b.len, b.len + Len(xs)), mem, xs)]
    ELSE [s |-> [arr |-> b.arr + 1, off |-> 0, len |-> b.len + Len(xs),
                 cap |-> b.len + Len(xs) + slack],
          mem |-> Bytes(b, mem) \o xs \o Zeros(slack)]

\* e.Encode(tar, b): writes the encoded characters into tar; an index out of
\* range when tar is too short.
Encode(e, tar, mem, b) ==
    IF tar.len < EncodedLen(Len(b))
    THEN [fault |-> TRUE, mem |-> mem]
    ELSE [fault |-> FALSE, mem |-> WriteAt(tar, mem, EncodeToString(e, b))]

\* ensure that allocates the longer slice itself and forgets to copy b into it.
ensureNoCopy(size, b, mem, slack) ==
    LET newLen == b.len + size
        grown == IF b.cap >= newLen
                 THEN [s |-> Reslice(b, 0, newLen), mem |-> mem]
                 ELSE [s |-> [arr |-> b.arr + 1, off |-> 0, len |-> newLen,
                              cap |-> newLen + slack],
                       mem |-> Zeros(newLen + slack)]
    IN  [ret |-> grown.s,
         tar |-> Reslice(grown.s, b.len, newLen),
         mem |-> grown.mem,
         fault |-> ~InBounds(grown.s, b.len, newLen)]

ensure(size, b, mem, slack) ==
    LET newLen == b.len + size
        grown == IF b.cap >= newLen
                 THEN [s |-> Reslice(b, 0, newLen), mem |-> mem]
                 ELSE append(b, mem, make(size), slack)
    IN  [ret |-> grown.s,
         tar |-> Reslice(grown.s, b.len, newLen),
         mem |-> grown.mem,
         fault |-> ~InBounds(grown.s, b.len, newLen)]

\* grow that takes any spare capacity at all for room enough.
growNoRoom(b, mem, n, slack) ==
    IF b.cap - b.len > 0
    THEN [s |-> b, mem |-> mem]
    ELSE LET a == append(b, mem, make(n), slack)
         IN  [s |-> Reslice(a.s, 0, b.len), mem |-> a.mem]

\* grow that, short of more than n spare bytes, copies into an array of its own.
growAlwaysCopies(b, mem, n, slack) ==
    IF b.cap - b.len > n
    THEN [s |-> b, mem |-> mem]
    ELSE [s |-> [arr |-> b.arr + 1, off |-> 0, len |-> b.len, cap |-> b.len + n + slack],
          mem |-> Bytes(b, mem) \o Zeros(n + slack)]

grow(b, mem, n, slack) ==
    IF b.cap - b.len > n
    THEN [s |-> b, mem |-> mem]
    ELSE LET a == append(b, mem, make(n), slack)
         IN  [s |-> Reslice(a.s, 0, b.len), mem |-> a.mem]

\* What a call that panicked leaves the caller with.
Panicked(kind, n) ==
    [outcome |-> kind, ret |-> NilSlice, mem |-> <<>>, raw |-> <<>>, reads |-> n]

Returned(s, mem, bytes, n) ==
    [outcome |-> "ok", ret |-> s, mem |-> mem, raw |-> bytes, reads |-> n]

-----------------------------------------------------------------------------
(* Time *)

\* byte(ut >> k) for k a multiple of 8: the arithmetic shift of an int64
\* followed by the truncating conversion keeps bits k..k+7.
ShiftByte(t, k) == (t[4 - (k \div 16)] \div (2 ^ (k % 16))) % 256

\* AppendTime with the five bytes in little endian order.
AppendTimeLittleEndian(e, t, b, mem, slack) ==
    LET bytes == <<ShiftByte(t, 0), ShiftByte(t, 8), ShiftByte(t, 16),
                   ShiftByte(t, 24), ShiftByte(t, 32)>>
        r == ensure(LenTime, b, mem, slack)
        w == Encode(e, r.tar, r.mem, bytes)
    IN  IF r.fault \/ w.fault
        THEN Panicked("panic: bounds", 0)
        ELSE Returned(r.ret, w.mem, bytes, 0)

\* AppendTime with every shift one byte too far.
AppendTimeShifted(e, t, b, mem, slack) ==
    LET bytes == <<ShiftByte(t, 40), ShiftByte(t, 32), ShiftByte(t, 24),
                   ShiftByte(t, 16), ShiftByte(t, 8)>>
        r == ensure(LenTime, b, mem, slack)
        w == Encode(e, r.tar, r.mem, bytes)
    IN  IF r.fault \/ w.fault
        THEN Panicked("panic: bounds", 0)
        ELSE Returned(r.ret, w.mem, bytes, 0)

AppendTime(e, t, b, mem, slack) ==
    LET bytes == <<ShiftByte(t, 32), ShiftByte(t, 24), ShiftByte(t, 16),
                   ShiftByte(t, 8), ShiftByte(t, 0)>>
        r == ensure(LenTime, b, mem, slack)
        w == Encode(e, r.tar, r.mem, bytes)
    IN  IF r.fault \/ w.fault
        THEN Panicked("panic: bounds", 0)
        ELSE Returned(r.ret, w.mem, bytes, 0)

-----------------------------------------------------------------------------
(* Checksum *)

RECURSIVE modFrom(_, _, _)
\* The loop of mod, entered with the remainder so far.
modFrom(rem, b, m) ==
    IF b = <<>> THEN rem
    ELSE modFrom(((rem * 1) * (2 ^ 8) + Head(b)) % m, Tail(b), m)

RECURSIVE modSumFrom(_, _, _)
modSumFrom(rem, b, m) ==
    IF b = <<>> THEN rem ELSE modSumFrom((rem + Head(b)) % m, Tail(b), m)

\* mod without the shift of the remainder: the sum of the bytes modulo m.
modSum(b, m) == modSumFrom(0, b, m)

mod(b, m) == modFrom(0, b, m)

\* The returned byte is held as a one-byte slice of its own.
Checksum(body, uppercase) ==
    LET alphabet == IF uppercase THEN UppercaseChecksum ELSE LowercaseChecksum
        i == mod(body, 37)
    IN  IF i < 0 \/ i >= Len(alphabet)
        THEN Panicked("panic: bounds", 0)
        ELSE Returned([arr |-> 1, off |-> 0, len |-> 1, cap |-> 1],
                      <<alphabet[i + 1]>>, <<>>, 0)

-----------------------------------------------------------------------------
(* Normalized *)

\* normUpper with 'o' and 'i' among the lowercase letters, upper-cased only.
normUpperCaseFirst(c) ==
    CASE c \in {48, 79} -> 48
      [] c \in {49, 73} -> 49
      [] c \in {50, 51, 52, 53, 54, 55, 56, 57, 65, 66, 67, 68, 69, 70, 71, 72,
                74, 75, 77, 78, 80, 81, 82, 83, 84, 86, 87, 88, 89, 90,
                42, 126, 36, 61, 85} -> c
      [] c \in {97, 98, 99, 100, 101, 102, 103, 104, 105, 106, 107, 109, 110, 111, 112,
                113, 114, 115, 116, 118, 119, 120, 121, 122, 117} -> c + 65 - 97
      [] OTHER -> 0

\* normUpper with 'L' among the letters kept.
normUpperKeepsL(c) ==
    CASE c \in {48, 79, 111} -> 48
      [] c \in {49, 73, 105} -> 49
      [] c \in {50, 51, 52, 53, 54, 55, 56, 57, 65, 66, 67, 68, 69, 70, 71, 72,
                74, 75, 76, 77, 78, 80, 81, 82, 83, 84, 86, 87, 88, 89, 90,
                42, 126, 36, 61, 85} -> c
      [] c \in {97, 98, 99, 100, 101, 102, 103, 104, 106, 107, 109, 110, 112,
                113, 114, 115, 116, 118, 119, 120, 121, 122, 117} -> c + 65 - 97
      [] OTHER -> 0

\* normUpper without the checksum letter 'u' among the lowercase letters.
normUpperNoU(c) ==
    CASE c \in {48, 79, 111} -> 48
      [] c \in {49, 73, 105} -> 49
      [] c \in {50, 51, 52, 53, 54, 55, 56, 57, 65, 66, 67, 68, 69, 70, 71, 72,
                74, 75, 77, 78, 80, 81, 82, 83, 84, 86, 87, 88, 89, 90,
                42, 126, 36, 61, 85} -> c
      [] c \in {97, 98, 99, 100, 101, 102, 103, 104, 106, 107, 109, 110, 112,
                113, 114, 115, 116, 118, 119, 120, 121, 122} -> c + 65 - 97
      [] OTHER -> 0

normUpper(c) ==
    CASE c \in {48, 79, 111} -> 48
      [] c \in {49, 73, 105} -> 49
      [] c \in {50, 51, 52, 53, 54, 55, 56, 57, 65, 66, 67, 68, 69, 70, 71, 72,
                74, 75, 77, 78, 80, 81, 82, 83, 84, 86, 87, 88, 89, 90,
                42, 126, 36, 61, 85} -> c
      [] c \in {97, 98, 99, 100, 101, 102, 103, 104, 106, 107, 109, 110, 112,
                113, 114, 115, 116, 118, 119, 120, 121, 122, 117} -> c + 65 - 97
      [] OTHER -> 0

RECURSIVE normLoop(_, _, _, _)
\* The loop of AppendNormalized over the bytes s still to read.
normLoop(b, mem, s, slack) ==
    IF s = <<>> THEN [s |-> b, mem |-> mem]
    ELSE LET r == normUpper(Head(s))
             a == IF r # 0 THEN append(b, mem, <<r>>, slack) ELSE [s |-> b, mem |-> mem]
         IN  normLoop(a.s, a.mem, Tail(s), slack)

AppendNormalized(b, mem, s, slack) ==
    LET d == IF b.cap = 0
             THEN [s |-> [arr |-> b.arr + 1, off |-> 0, len |-> 0, cap |-> Len(s)],
                   mem |-> Zeros(Len(s))]
             ELSE [s |-> b, mem |-> mem]
        r == normLoop(d.s, d.mem, s, slack)
    IN  Returned(r.s, r.mem, <<>>, 0)

-----------------------------------------------------------------------------
(* Random *)

\* AppendRandom that does not look at the error of rand.Read.
AppendRandomIgnoresErr(e, b, mem, rnd, ok, slack) ==
    LET g == grow(b, mem, LenRandom, slack)
        d == g.s
        view == Reslice(d, d.len, d.len + 5)
        filled == IF ok THEN WriteAt(view, g.mem, rnd) ELSE g.mem
        tar == Reslice(d, d.len, d.len + LenRandom)
        w == Encode(e, tar, filled, Bytes(view, filled))
    IN  IF ~InBounds(d, d.len, d.len + 5) THEN Panicked("panic: bounds", 0)
        ELSE IF ~InBounds(d, d.len, d.len + LenRandom) \/ w.fault
                 \/ ~InBounds(d, 0, d.len + LenRandom)
        THEN Panicked("panic: bounds", 1)
        ELSE Returned(Reslice(d, 0, d.len + LenRandom), w.mem, Bytes(view, filled), 1)

\* rand.Read(src) fills src with rnd, or fails (ok = FALSE).
AppendRandom(e, b, mem, rnd, ok, slack) ==
    LET g == grow(b, mem, LenRandom, slack)
        d == g.s
        view == Reslice(d, d.len, d.len + 5)
        filled == WriteAt(view, g.mem, rnd)
        tar == Reslice(d, d.len, d.len + LenRandom)
        w == Encode(e, tar, filled, Bytes(view, filled))
    IN  IF ~InBounds(d, d.len, d.len + 5) THEN Panicked("panic: bounds", 0)
        ELSE IF ~ok THEN Panicked("panic: rand", 1)
        ELSE IF ~InBounds(d, d.len, d.len + LenRandom) \/ w.fault
                 \/ ~InBounds(d, 0, d.len + LenRandom)
        THEN Panicked("panic: bounds", 1)
        ELSE Returned(Reslice(d, 0, d.len + LenRandom), w.mem, rnd, 1)

-----------------------------------------------------------------------------
(* MD5 *)

\* crypto/md5 on the inputs of RFC 1321's test suite: "", "a", "abc",
\* "message digest".
md5Sum(s) ==
    CASE s = <<>> ->
           <<212, 29, 140, 217, 143, 0, 178, 4, 233, 128, 9, 152, 236, 248, 66, 126>>
      [] s = <<97>> ->
           <<12, 193, 117, 185, 192, 241, 182, 168, 49, 195, 153, 226, 105, 119, 38, 97>>
      [] s = <<97, 98, 99>> ->
           <<144, 1, 80, 152, 60, 210, 79, 176, 214, 150, 63, 125, 40, 225, 127, 114>>
      [] s = <<109, 101, 115, 115, 97, 103, 101, 32, 100, 105, 103, 101, 115, 116>> ->
           <<249, 107, 105, 125, 124, 183, 147, 141, 82, 90, 47, 49, 170, 241, 97, 208>>

AppendMD5(e, b, mem, s, slack) ==
    LET buf == md5Sum(s)
        r == ensure(LenMD5, b, mem, slack)
        w == Encode(e, r.tar, r.mem, buf)
    IN  IF r.fault \/ w.fault
        THEN Panicked("panic: bounds", 0)
        ELSE Returned(r.ret, w.mem, buf, 0)

-----------------------------------------------------------------------------
(* Inputs *)

\* t + d for an int64 t and 0 <= d < 2^16, wrapping as int64 addition does.
AddSeconds(t, d) ==
    LET s0 == t[4] + d
        s1 == t[3] + (s0 \div 65536)
        s2 == t[2] + (s1 \div 65536)
        s3 == t[1] + (s2 \div 65536)
    IN  <<s3 % 65536, s2 % 65536, s1 % 65536, s0 % 65536>>

\* 0, 2^5 - 1, 2^8 - 1, 2^16 - 1, 1700000000, 2^32 - 2, 2^40 - 3,
\* 2^40 - 1, 2^40 + 1700000000, 2^63 - 2, -2^40, -2
TimeAnchors ==
    { <<0, 0, 0, 0>>, <<0, 0, 0, 31>>, <<0, 0, 0, 255>>, <<0, 0, 0, 65535>>,
      <<0, 0, 25939, 61696>>, <<0, 0, 65535, 65534>>, <<0, 255, 65535, 65533>>,
      <<0, 255, 65535, 65535>>, <<0, 256, 25939, 61696>>,
      <<32767, 65535, 65535, 65534>>, <<65535, 65280, 0, 0>>,
      <<65535, 65535, 65535, 65534>> }

TimeSamples == { AddSeconds(a, d) : a \in TimeAnchors, d \in 0..TimeSpread }

\* The caller's destination slices: nil, or a slice of a backing array whose
\* first len bytes are "AB.." and whose spare capacity holds stale bytes.
SpareSamples == {0, 1, LenTime - 1, LenTime, LenTime + 1, LenMD5 - 1, LenMD5, LenMD5 + 1}

DstSamples ==
    { [s |-> NilSlice, mem |-> <<>>] } \cup
    { [s |-> [arr |-> 1, off |-> 0, len |-> n, cap |-> n + k],
       mem |-> [i \in 1..(n + k) |-> IF i <= n THEN 64 + i ELSE 238]] :
         n \in 0..MaxDstLen, k \in SpareSamples }

\* The bytes crypto/rand delivers.
RandSamples ==
    { <<0, 0, 0, 0, 0>>, <<255, 255, 255, 255, 255>>, <<1, 35, 69, 103, 137>>,
      <<132, 33, 8, 66, 16>>, <<222, 173, 190, 239, 66>> }

MD5Inputs ==
    { <<>>, <<97>>, <<97, 98, 99>>,
      <<109, 101, 115, 115, 97, 103, 101, 32, 100, 105, 103, 101, 115, 116>> }

\* Every sequence over S of length 0..n.
SeqsUpTo(S, n) == UNION { [1..k -> S] : k \in 0..n }

BodyBytes == {0, 1, 36, 37, 38, 73, 74, 127, 128, 200, 254, 255}

Bodies == SeqsUpTo(BodyBytes, MaxBodyLen)

\* 'o', 'I', 'l', '-', 'a', 'U', '*', NUL
TypedBytes == {111, 73, 108, 45, 97, 85, 42, 0}

\* Every single byte; short typed strings; "ab-1O".
NormInputs ==
    { <<c>> : c \in 0..255 } \cup SeqsUpTo(TypedBytes, MaxStrLen)
        \cup { <<97, 98, 45, 49, 79>> }

\* 'O', '-', 'z', 'L'
AppendTypedBytes == {79, 45, 122, 76}

AppendNormInputs == SeqsUpTo(AppendTypedBytes, MaxAppendStrLen)

NoCall == [op |-> "idle", enc |-> "lower", ut |-> <<0, 0, 0, 0>>, src |-> <<>>,
           out |-> <<>>, raw |-> <<>>, outcome |-> "ok"]

\* The bytes of the returned slice.
Out == Bytes(ret, retMem)

ThisCall == [op |-> op, enc |-> enc, ut |-> ut, src |-> src,
             out |-> Out, raw |-> raw, outcome |-> outcome]

-----------------------------------------------------------------------------
(* The caller *)

Init ==
    /\ op = "idle"
    /\ enc = "lower"
    /\ ut = <<0, 0, 0, 0>>
    /\ src = <<>>
    /\ dst = NilSlice
    /\ dstMem = <<>>
    /\ ret = NilSlice
    /\ retMem = <<>>
    /\ raw = <<>>
    /\ outcome = "ok"
    /\ reads = 0
    /\ randErr = FALSE
    /\ prev = NoCall

\* The call's effect on the caller's view: what was passed, what came back.
Call(name, e, t, s, d, r, err) ==
    /\ op' = name
    /\ enc' = e
    /\ ut' = t
    /\ src' = s
    /\ dst' = d.s
    /\ dstMem' = d.mem
    /\ ret' = r.ret
    /\ retMem' = r.mem
    /\ raw' = r.raw
    /\ outcome' = r.outcome
    /\ reads' = r.reads
    /\ randErr' = err
    /\ prev' = ThisCall

\* Time(e, t) = string(AppendTime(e, t, nil)); a caller stamps one id after another.
DoTime ==
    /\ op = "idle" \/ (op = "Time" /\ prev.op = "idle")
    /\ \E e \in Encodings, t \in TimeSamples :
         Call("Time", e, t, <<>>, [s |-> NilSlice, mem |-> <<>>],
              AppendTime(Encoding(e), t, NilSlice, <<>>, 0), FALSE)

DoAppendTime ==
    /\ op = "idle"
    /\ \E e \in Encodings, t \in TimeSamples, d \in DstSamples, slack \in 0..MaxSlack :
         Call("AppendTime", e, t, <<>>, d, AppendTime(Encoding(e), t, d.s, d.mem, slack), FALSE)

DoChecksum ==
    /\ op = "idle"
    /\ \E body \in Bodies, uppercase \in BOOLEAN :
         Call("Checksum", IF uppercase THEN "upper" ELSE "lower", <<0, 0, 0, 0>>, body,
              [s |-> NilSlice, mem |-> <<>>], Checksum(body, uppercase), FALSE)

\* Normalized(s) = string(AppendNormalized(nil, []byte(s))), on what a user typed ...
NormalizeTyped ==
    /\ op = "idle"
    /\ \E s \in NormInputs :
         Call("Normalized", "upper", <<0, 0, 0, 0>>, s, [s |-> NilSlice, mem |-> <<>>],
              AppendNormalized(NilSlice, <<>>, s, 0), FALSE)

\* ... or on the string the call before returned.
NormalizeOutput ==
    /\ op \in {"Time", "Random", "MD5", "Checksum", "Normalized"}
    /\ outcome = "ok"
    /\ Call("Normalized", "upper", <<0, 0, 0, 0>>, Out, [s |-> NilSlice, mem |-> <<>>],
            AppendNormalized(NilSlice, <<>>, Out, 0), FALSE)

DoNormalized == NormalizeTyped \/ NormalizeOutput

DoAppendNormalized ==
    /\ op = "idle"
    /\ \E s \in AppendNormInputs, d \in DstSamples, slack \in 0..MaxSlack :
         Call("AppendNormalized", "upper", <<0, 0, 0, 0>>, s, d,
              AppendNormalized(d.s, d.mem, s, slack), FALSE)

\* Random(e) = string(AppendRandom(e, nil))
DoRandom ==
    /\ op = "idle"
    /\ \E e \in Encodings, rnd \in RandSamples, ok \in BOOLEAN :
         Call("Random", e, <<0, 0, 0, 0>>, <<>>, [s |-> NilSlice, mem |-> <<>>],
              AppendRandom(Encoding(e), NilSlice, <<>>, rnd, ok, 0), ~ok)

DoAppendRandom ==
    /\ op = "idle"
    /\ \E e \in Encodings, rnd \in RandSamples, ok \in BOOLEAN,
          d \in DstSamples, slack \in 0..MaxSlack :
         Call("AppendRandom", e, <<0, 0, 0, 0>>, <<>>, d,
              AppendRandom(Encoding(e), d.s, d.mem, rnd, ok, slack), ~ok)

\* MD5(e, src) = string(AppendMD5(e, nil, src))
DoMD5 ==
    /\ op = "idle"
    /\ \E e \in Encodings, s \in MD5Inputs :
         Call("MD5", e, <<0, 0, 0, 0>>, s, [s |-> NilSlice, mem |-> <<>>],
              AppendMD5(Encoding(e), NilSlice, <<>>, s, 0), FALSE)

DoAppendMD5 ==
    /\ op = "idle"
    /\ \E e \in Encodings, s \in MD5Inputs, d \in DstSamples, slack \in 0..MaxSlack :
         Call("AppendMD5", e, <<0, 0, 0, 0>>, s, d,
              AppendMD5(Encoding(e), d.s, d.mem, s, slack), FALSE)

\* The caller drops the result and starts over.
Done ==
    /\ op # "idle"
    /\ op' = "idle"
    /\ enc' = "lower"
    /\ ut' = <<0, 0, 0, 0>>
    /\ src' = <<>>
    /\ dst' = NilSlice
    /\ dstMem' = <<>>
    /\ ret' = NilSlice
    /\ retMem' = <<>>
    /\ raw' = <<>>
    /\ outcome' = "ok"
    /\ reads' = 0
    /\ randErr' = FALSE
    /\ prev' = NoCall

Next ==
    \/ DoTime
    \/ DoAppendTime
    \/ DoChecksum
    \/ DoNormalized
    \/ DoAppendNormalized
    \/ DoRandom
    \/ DoAppendRandom
    \/ DoMD5
    \/ DoAppendMD5
    \/ Done

Spec == Init /\ [][Next]_vars

-----------------------------------------------------------------------------
(* Properties *)

EncoderOps == {"Time", "AppendTime", "Random", "AppendRandom", "MD5", "AppendMD5"}

AppendOps == {"AppendTime", "AppendRandom", "AppendMD5", "AppendNormalized"}

\* The bytes of the returned slice after the first len(dst).
Appended == SubSeq(Out, dst.len + 1, Len(Out))

\* Byte-wise lexicographic order, as Go compares strings.
LexLess(a, b) ==
    \/ \E k \in 1..(IF Len(a) < Len(b) THEN Len(a) ELSE Len(b)) :
          /\ \A j \in 1..(k - 1) : a[j] = b[j]
          /\ a[k] < b[k]
    \/ /\ Len(a) < Len(b)
       /\ \A j \in 1..Len(a) : a[j] = b[j]

\* 0 <= t < 2^40
InRange40(t) == t[1] = 0 /\ t[2] < 256

\* t mod 2^40 as an 8-bit and two 16-bit digits, most significant first.
Low40(t) == <<t[2] % 256, t[3], t[4]>>

\* C1: of two Time calls with the same encoding and Unix seconds t1 < t2, both
\* within 0..2^40-1, the first returns the lexicographically smaller string.
C1_TimeSortsLexicographically ==
    ( /\ op = "Time" /\ prev.op = "Time" /\ enc = prev.enc
      /\ InRange40(prev.ut) /\ InRange40(ut) /\ LexLess(prev.ut, ut) )
    => LexLess(prev.out, Out)

\* C1's case: 65535 then 65536, where the lowest byte falls while the time rises.
C1_Witness ==
    /\ op = "Time" /\ prev.op = "Time" /\ enc = prev.enc
    /\ prev.ut = <<0, 0, 0, 65535>> /\ ut = <<0, 0, 1, 0>>
    /\ LexLess(prev.out, Out)

\* C2: AppendTime and AppendRandom (the random source succeeding) return a slice
\* of length len(dst)+8 and AppendMD5 one of length len(dst)+26, for every dst;
\* Time and Random return 8 characters and MD5 26; none faults on a slice bound.
C2_FragmentLengths ==
    /\ op \in EncoderOps => outcome # "panic: bounds"
    /\ op \in {"Time", "AppendTime"} => outcome = "ok" /\ ret.len = dst.len + 8
    /\ (op \in {"Random", "AppendRandom"} /\ ~randErr) =>
           outcome = "ok" /\ ret.len = dst.len + 8
    /\ op \in {"MD5", "AppendMD5"} => outcome = "ok" /\ ret.len = dst.len + 26
    /\ (op \in {"Time", "Random"} /\ outcome = "ok") => Len(Out) = 8
    /\ op = "MD5" => Len(Out) = 26

\* C2's case: AppendRandom onto a slice with one spare byte, which must reallocate.
C2_Witness ==
    /\ op = "AppendRandom" /\ ~randErr /\ dst.len = 2 /\ dst.cap = 3
    /\ outcome = "ok" /\ ret.len = 10

\* C3: decoding the fragment of Time / AppendTime with the same alphabet gives five
\* bytes that read big endian are t mod 2^40, for every int64 t; two times that
\* agree modulo 2^40 give the same fragment; the call does not fail.
C3_TimeKeepsLow40Bits ==
    /\ op \in {"Time", "AppendTime"} =>
          /\ outcome = "ok"
          /\ LET d == DecodeString(Encoding(enc), Appended)
             IN  /\ Len(d) = 5
                 /\ <<d[1], d[2] * 256 + d[3], d[4] * 256 + d[5]>> = Low40(ut)
    /\ (op = "Time" /\ prev.op = "Time" /\ enc = prev.enc /\ Low40(ut) = Low40(prev.ut))
          => Out = prev.out

\* C3's case: 1700000000 and then 2^40 + 1700000000.
C3_Witness ==
    /\ op = "Time" /\ prev.op = "Time" /\ enc = prev.enc
    /\ prev.ut = <<0, 0, 25939, 61696>> /\ ut = <<0, 256, 25939, 61696>>
    /\ Out = prev.out
    /\ DecodeString(Encoding(enc), Out) = <<0, 101, 83, 241, 0>>

RECURSIVE BigEndianValue(_)
\* The byte string read as a big endian base 256 number.
BigEndianValue(b) ==
    IF b = <<>> THEN 0
    ELSE BigEndianValue(SubSeq(b, 1, Len(b) - 1)) * 256 + b[Len(b)]

\* C4: Checksum(body, uppercase) returns, without an index out of range, the symbol
\* at index N mod 37 of the selected checksum alphabet, N being body read as a big
\* endian base 256 number (0 for the empty body).
C4_ChecksumIsValueMod37 ==
    op = "Checksum" =>
        /\ outcome = "ok"
        /\ Len(IF enc = "upper" THEN UppercaseChecksum ELSE LowercaseChecksum) = 37
        /\ Out = << (IF enc = "upper" THEN UppercaseChecksum ELSE LowercaseChecksum)
                       [(BigEndianValue(src) % 37) + 1] >>

\* C4's case: the body 0x01 0x00 (256 = 6*37 + 34) gives '$'; the empty body '0'.
C4_Witness ==
    /\ op = "Checksum" /\ src = <<1, 0>> /\ enc = "lower" /\ Out = <<36>>

\* C5: normalizing the result of Normalized gives that result again.
C5_NormalizedIdempotent ==
    (op = "Normalized" /\ prev.op = "Normalized") => (src = prev.out /\ Out = prev.out)

\* C5's case: "oIl" normalizes to "01", and "01" to itself.
C5_Witness ==
    /\ op = "Normalized" /\ prev.op = "Normalized"
    /\ prev.src = <<111, 73, 108>> /\ prev.out = <<48, 49>> /\ Out = <<48, 49>>

\* The per-byte map as C6 states it: the image of a byte, empty when it is dropped.
Image(c) ==
    IF c \in {48, 79, 111} THEN <<48>>
    ELSE IF c \in {49, 73, 105} THEN <<49>>
    ELSE IF c \in 50..57 THEN <<c>>
    ELSE IF c \in (65..90) \ {73, 76, 79} THEN <<c>>
    ELSE IF c \in {42, 126, 36, 61} THEN <<c>>
    ELSE IF c \in (97..122) \ {105, 108, 111} THEN <<c - 32>>
    ELSE <<>>

RECURSIVE Images(_)
Images(s) == IF s = <<>> THEN <<>> ELSE Image(Head(s)) \o Images(Tail(s))

\* C6: Normalized(s) (and what AppendNormalized appends) is the in-order
\* concatenation of the images of s's bytes under the per-byte map above, so it is
\* no longer than s.
C6_NormalizedIsMapOfBytes ==
    (op \in {"Normalized", "AppendNormalized"}) =>
        /\ outcome = "ok"
        /\ Appended = Images(src)
        /\ Len(Appended) <= Len(src)

\* C6's case: Normalized("ab-1O") = "AB10".
C6_Witness ==
    /\ op = "Normalized" /\ src = <<97, 98, 45, 49, 79>> /\ Out = <<65, 66, 49, 48>>

\* C7: with spare capacity of at least the fragment length (8, 8, 26), AppendTime,
\* AppendRandom and AppendMD5 return a slice of dst's backing array with dst's
\* capacity.
C7_NoReallocationWithinCapacity ==
    /\ (op \in {"AppendTime", "AppendRandom"} /\ ~randErr /\ dst.cap - dst.len >= 8) =>
          outcome = "ok" /\ ret.arr = dst.arr /\ ret.off = dst.off /\ ret.cap = dst.cap
    /\ (op = "AppendMD5" /\ dst.cap - dst.len >= 26) =>
          outcome = "ok" /\ ret.arr = dst.arr /\ ret.off = dst.off /\ ret.cap = dst.cap

\* C7's case: AppendRandom with exactly 8 spare bytes.
C7_Witness ==
    /\ op = "AppendRandom" /\ ~randErr /\ dst.len = 2 /\ dst.cap = 10
    /\ outcome = "ok" /\ ret.arr = dst.arr /\ ret.cap = 10 /\ ret.len = 10

\* C8: every append operation returns a slice whose first len(dst) bytes are dst's
\* bytes before the call, reallocating or not, with the new bytes after them.
C8_AppendKeepsPrefix ==
    (op \in AppendOps /\ outcome = "ok") =>
        /\ ret.len >= dst.len
        /\ SubSeq(Out, 1, dst.len) = Bytes(dst, dstMem)
        /\ op # "AppendNormalized" => Appended = EncodeToString(Encoding(enc), raw)
        /\ op = "AppendNormalized" => Appended = Images(src)

\* C8's case: AppendMD5 onto "AB" with 25 spare bytes, which reallocates.
C8_Witness ==
    /\ op = "AppendMD5" /\ dst.len = 2 /\ dst.cap = 27 /\ ret.arr # dst.arr
    /\ SubSeq(Out, 1, 2) = <<65, 66>> /\ Len(Out) = 28

\* C9: when the random source fails, Random / AppendRandom panic after that one
\* read and return nothing; when it succeeds they return normally; no other
\* operation has an error outcome.
C9_OnlyEntropyFailureIsFatal ==
    /\ (op \in {"Random", "AppendRandom"} /\ randErr) =>
          outcome = "panic: rand" /\ reads = 1 /\ ret = NilSlice /\ Out = <<>>
    /\ (op \in {"Random", "AppendRandom"} /\ ~randErr) => outcome = "ok" /\ reads = 1
    /\ op \notin {"Random", "AppendRandom"} => outcome = "ok" /\ reads = 0

\* C9's case: AppendRandom, within capacity, with a failing source.
C9_Witness ==
    /\ op = "AppendRandom" /\ randErr /\ dst.cap - dst.len = 9 /\ outcome = "panic: rand"

\* C10: Normalized maps the i-th symbol of either checksum alphabet to the i-th of
\* UppercaseChecksum; so a fragment encoded with Lower or Upper normalizes to the
\* Upper encoding of the same bytes, and the checksum symbol of a body normalizes
\* to its uppercase checksum symbol.
C10_NormalizedAgreesWithAlphabets ==
    /\ (op = "Normalized" /\ Len(src) = 1) =>
          \A i \in 1..37 :
              src[1] \in {LowercaseChecksum[i], UppercaseChecksum[i]}
                  => Out = <<UppercaseChecksum[i]>>
    /\ (op = "Normalized" /\ prev.op \in {"Time", "Random", "MD5"}) =>
          Out = EncodeToString(Upper, prev.raw)
    /\ (op = "Normalized" /\ prev.op = "Checksum") =>
          Out = Checksum(prev.src, TRUE).mem

\* C10's case: the lowercase checksum 'u' of the body 0x24 normalizes to 'U'.
C10_Witness ==
    /\ op = "Normalized" /\ prev.op = "Checksum" /\ prev.enc = "lower"
    /\ prev.src = <<36>> /\ src = <<117>> /\ Out = <<85>>

====
